---- MODULE Spec2Model ----
(***************************************************************************)
(* Model of samp_server_monitor.py: the SA-MP query client, the probe      *)
(* (check_server), the transition handler (handle_server_status_change)    *)
(* and the monitoring loop with its start/stop lifecycle.                  *)
(*                                                                         *)
(* Python dicts are TLA+ records whose DOMAIN is the dict's key set, so    *)
(* dict.get(key, default) is modelled by Get.  The 'timestamp' entries of  *)
(* the status dicts are left out: no decision in the code reads them.      *)
(* The float comparisons load >= 0.8 and old_load < 0.8 are modelled by    *)
(* exact cross-multiplication; for the integer operands used here the      *)
(* correctly rounded quotient compares with the literal 0.8 exactly as the *)
(* rational does.                                                          *)
(***************************************************************************)
EXTENDS Integers, Sequences, FiniteSets, TLC

VARIABLES
    config,         \* self.config['servers'], loaded once by __init__
    monitoring,     \* self.monitoring
    server_states,  \* self.server_states: name -> status dict, None if no entry
    pc,             \* per monitor thread: position inside monitor_loop
    idx,            \* per monitor thread: index of the server of the for loop
    new_status,     \* per monitor thread: local new_status
    old_status,     \* per monitor thread: local old_status
    sent,           \* per monitor thread: alerts passed to the notifier in this iteration
    cycles,         \* number of cycles begun, over all monitor threads
    stored,         \* per monitor thread: names stored by the current cycle
    stop_mid,       \* per monitor thread: stop_monitoring was called during the current cycle
    raised_at,      \* per monitor thread: index of the server whose handling raised in the current cycle, 0 if none
    hl_run,         \* per server: HighLoad notifications since the last stored snapshot below the threshold
    notify_failed,  \* per monitor thread: index of the first server of the current cycle for which a send_alert failed, 0 if none
    stop_sleep,     \* per monitor thread: stop_monitoring was called while the thread was in the sleep of line 470 and the loop has not exited since
    stopped_since_start, \* stop_monitoring was called after the last start_monitoring
    ev_pc,          \* evaluation harness: "off", "input" or "done"
    ev_old,         \* evaluation harness: old_status argument
    ev_new,         \* evaluation harness: new_status argument
    ev_threshold,   \* evaluation harness: high_load_threshold of the server's configuration entry, in tenths
    ev_alerts,      \* evaluation harness: alerts sent by the call
    pr_pc,          \* probe harness: "off", "input" or "done"
    pr_config,      \* probe harness: server_config argument
    pr_nets,        \* probe harness: what the network does with the ping, players and serverinfo queries
    pr_result,      \* probe harness: what check_server returned or raised
    nt_pc,          \* notifier harness: "off", "input" or "done"
    nt_http,        \* notifier harness: what requests.post does
    nt_result,      \* notifier harness: what send_alert returned or raised
    rd_pc,          \* report writer: "idle", "dump", "saved" or "failed"
    rd_size,        \* report writer: len(server_states) when json.dump began to iterate it
    rd_pos,         \* report writer: entries of server_states written so far
    ct_pc,          \* construction harness: "off", "input" or "done"
    ct_file,        \* construction harness: the configuration file the constructor is given
    ct_result       \* construction harness: the monitor ServerMonitor(config_file) built, or what it raised

vars == <<config, monitoring, server_states, pc, idx, new_status, old_status,
          sent, cycles, stored, stop_mid, raised_at, hl_run, notify_failed, stop_sleep,
          stopped_since_start,
          ev_pc, ev_old, ev_new, ev_threshold, ev_alerts, pr_pc, pr_config, pr_nets, pr_result,
          nt_pc, nt_http, nt_result, rd_pc, rd_size, rd_pos,
          ct_pc, ct_file, ct_result>>

monitor_vars == <<config, monitoring, server_states, pc, idx, new_status,
                  old_status, sent, cycles, stored, stop_mid, raised_at, hl_run,
                  notify_failed, stop_sleep, stopped_since_start>>

ev_vars == <<ev_pc, ev_old, ev_new, ev_threshold, ev_alerts>>

pr_vars == <<pr_pc, pr_config, pr_nets, pr_result>>

nt_vars == <<nt_pc, nt_http, nt_result>>

rd_vars == <<rd_pc, rd_size, rd_pos>>

ct_vars == <<ct_pc, ct_file, ct_result>>

----------------------------------------------------------------------------
(* Bounds *)

\* largest number of '\n' characters in a reply to the 'players' query (monitor runs)
MaxNewlines == 1
\* largest player_count of the snapshots drawn for the evaluation harness
MaxCount == 10
\* number of monitor threads start_monitoring can create
MaxThreads == 2
\* number of cycles the monitor threads may begin, all together
MaxCycles == 3

----------------------------------------------------------------------------
(* Python values *)

\* None where a dict is expected
None == [py_none |-> TRUE]

\* None where an int is expected (ping and player_count are never negative)
NoneInt == -1

\* dict.get(key, default)
Get(d, key, default) == IF key \in DOMAIN d THEN d[key] ELSE default

\* the result of a call: a returned value or a raised exception
Returned(v) == [raised |-> FALSE, value |-> v]

Raised(e) == [raised |-> TRUE, exc |-> e]

----------------------------------------------------------------------------
(* SAMPServerQuery *)

\* what the network does with one UDP query
NetTimeout == [kind |-> "timeout"]

NetError == [kind |-> "error"]

NetReply(empty, newlines, ms) ==
    [kind |-> "reply", empty |-> empty, newlines |-> newlines, ms |-> ms]

\* elapsed milliseconds measured by ping()
PingTimes == {12}

NetOutcomes(maxNewlines) ==
    {NetTimeout, NetError}
    \cup {NetReply(TRUE, 0, ms) : ms \in PingTimes}
    \cup {NetReply(FALSE, n, ms) : n \in 0..maxNewlines, ms \in PingTimes}

_send_query(net) ==
    IF net.kind = "timeout" THEN Raised("Query timeout")
    ELSE IF net.kind = "error" THEN Raised("Query failed")
    ELSE Returned(net)

get_server_info(net) ==
    LET q == _send_query(net) IN
    IF q.raised THEN Returned(FALSE)            \* except SAMPQueryException: return None
    ELSE IF q.value.empty THEN Returned(FALSE)  \* if not response: return None
    ELSE Returned(TRUE)                         \* the info dict

get_player_count(net) ==
    LET q == _send_query(net) IN
    IF q.raised THEN Returned(NoneInt)
    ELSE IF q.value.empty THEN Returned(NoneInt)
    ELSE Returned(q.value.newlines)             \* len(response.split('\n')) - 1

ping(net) ==
    LET q == _send_query(net) IN
    IF q.raised THEN Returned(NoneInt)
    ELSE Returned(q.value.ms)

----------------------------------------------------------------------------
(* DiscordNotifier.send_alert *)

\* what requests.post does: a response with a status code, or a
\* RequestException (connection error, timeout)
HttpResponse(code) == [kind |-> "response", status_code |-> code]

HttpException(e) == [kind |-> "exception", exc |-> e]

HttpOutcomes ==
    {HttpResponse(code) : code \in 100..599}
    \cup {HttpException(e) : e \in {"ConnectionError", "Timeout"}}

\* the mutant takes every 2xx status for a success
send_alert_any_2xx_mutant(http) ==
    IF http.kind = "exception" THEN Returned(FALSE)
    ELSE IF http.status_code \in 200..299 THEN Returned(TRUE)
    ELSE Returned(FALSE)

send_alert(http) ==
    IF http.kind = "exception" THEN Returned(FALSE)     \* except RequestException: return False
    ELSE IF http.status_code \in {200, 204} THEN Returned(TRUE)
    ELSE Returned(FALSE)

----------------------------------------------------------------------------
(* ServerMonitor.check_server *)

DefaultMaxPlayers == 100

\* the mutant stores what get_player_count returned, without 'or 0'
OnlineStatus_raw_count_mutant(server_config, ping_ms, player_count) ==
    [name |-> server_config.name,
     host |-> server_config.host,
     port |-> server_config.port,
     online |-> TRUE,
     ping |-> ping_ms,
     player_count |-> player_count,
     max_players |-> Get(server_config, "max_players", DefaultMaxPlayers)]

OnlineStatus(server_config, ping_ms, player_count) ==
    [name |-> server_config.name,
     host |-> server_config.host,
     port |-> server_config.port,
     online |-> TRUE,
     ping |-> ping_ms,
     player_count |-> IF player_count = NoneInt \/ player_count = 0 THEN 0 ELSE player_count,
     max_players |-> Get(server_config, "max_players", DefaultMaxPlayers)]

OfflineStatus(server_config, e) ==
    [name |-> server_config.name,
     host |-> server_config.host,
     port |-> server_config.port,
     online |-> FALSE,
     error |-> e]

\* the three nets are what the network does with the ping, players and
\* serverinfo queries of this probe
check_server(server_config, net_ping, net_players, net_info) ==
    IF "host" \notin DOMAIN server_config THEN Raised("KeyError")
    ELSE LET p == ping(net_ping)
             c == get_player_count(net_players)
             i == get_server_info(net_info)
         IN  IF p.raised THEN Returned(OfflineStatus(server_config, p.exc))
             ELSE IF c.raised THEN Returned(OfflineStatus(server_config, c.exc))
             ELSE IF i.raised THEN Returned(OfflineStatus(server_config, i.exc))
             ELSE Returned(OnlineStatus(server_config, p.value, c.value))

\* what the network does with the three queries of one probe in the monitor
\* runs: the server answers none of them (timeouts or transport errors) or
\* answers all three, the players reply holding 1..maxNewlines newlines.
\* (The probe harness below draws the three outcomes independently.)
NetScenarios(maxNewlines) ==
    {<<NetTimeout, NetTimeout, NetTimeout>>, <<NetError, NetError, NetError>>}
    \cup {<<NetReply(FALSE, 0, ms), NetReply(FALSE, n, ms), NetReply(FALSE, 0, ms)>> :
              n \in 1..maxNewlines, ms \in PingTimes}

\* every result of check_server over these scenarios
ProbeResults(server_config, maxNewlines) ==
    {check_server(server_config, sc[1], sc[2], sc[3]) : sc \in NetScenarios(maxNewlines)}

----------------------------------------------------------------------------
(* ServerMonitor.handle_server_status_change *)

ThresholdNum == 8

ThresholdDen == 10

Alert(kind, server_name) == [kind |-> kind, server |-> server_name]

\* the mutant divides without the max_players > 0 guard
Load_unguarded_mutant(player_count, max_players) ==
    <<player_count, max_players>>

\* a load is the pair <<numerator, denominator>> of the quotient the code computes
Load(player_count, max_players) ==
    IF max_players > 0 THEN <<player_count, max_players>> ELSE <<0, 1>>

\* load >= threshold
\* the mutant compares with the high_load_threshold of the server's entry
AtOrAbove_configured_mutant(load) == load[1] * ThresholdDen >= ev_threshold * load[2]

AtOrAbove(load) == load[1] * ThresholdDen >= ThresholdNum * load[2]

\* line 386: the old snapshot was online and the new one is not
went_offline_mutant(new, old) ==
    Get(old, "online", TRUE) /\ Get(new, "online", FALSE)

went_offline(new, old) ==
    Get(old, "online", TRUE) /\ ~Get(new, "online", FALSE)

\* line 395: the old snapshot was offline and the new one is online
came_online_mutant(new, old) ==
    Get(new, "online", TRUE)

came_online(new, old) ==
    ~Get(old, "online", FALSE) /\ Get(new, "online", TRUE)

\* line 414: load >= threshold and old_load < threshold
rising_edge_mutant(load, old_load) ==
    load[1] * ThresholdDen > ThresholdNum * load[2] /\ ~AtOrAbove(old_load)

rising_edge(load, old_load) ==
    AtOrAbove(load) /\ ~AtOrAbove(old_load)

\* the mutant runs the load block before the offline/online block
status_change_alerts_load_first_mutant(server_name, new, old) ==
    LET transition ==
          IF went_offline(new, old)
          THEN <<Alert("WentOffline", server_name)>>
          ELSE IF came_online(new, old)
          THEN <<Alert("WentOnline", server_name)>>
          ELSE <<>>
        high ==
          IF Get(new, "online", FALSE)
          THEN LET load == Load(Get(new, "player_count", 0),
                                Get(new, "max_players", DefaultMaxPlayers))
                   old_load == Load(Get(old, "player_count", 0),
                                    Get(old, "max_players", DefaultMaxPlayers))
               IN  IF rising_edge(load, old_load)
                   THEN <<Alert("HighLoad", server_name)>>
                   ELSE <<>>
          ELSE <<>>
    IN  high \o transition

\* lines 385-432: the alerts sent once old_status is known to be present
status_change_alerts(server_name, new, old) ==
    LET transition ==
          IF went_offline(new, old)
          THEN <<Alert("WentOffline", server_name)>>
          ELSE IF came_online(new, old)
          THEN <<Alert("WentOnline", server_name)>>
          ELSE <<>>
        high ==
          IF Get(new, "online", FALSE)
          THEN LET load == Load(Get(new, "player_count", 0),
                                Get(new, "max_players", DefaultMaxPlayers))
                   old_load == Load(Get(old, "player_count", 0),
                                    Get(old, "max_players", DefaultMaxPlayers))
               IN  IF rising_edge(load, old_load)
                   THEN <<Alert("HighLoad", server_name)>>
                   ELSE <<>>
          ELSE <<>>
    IN  transition \o high

\* the mutant treats a missing old_status as an empty dict
handle_no_baseline_mutant(server_name, new, old) ==
    status_change_alerts(server_name, new, old)

\* the mutant remembers that alerts were sent and sends none on a later call
handle_remembering_mutant(server_name, new, old) ==
    IF old = None \/ ev_alerts # <<>> THEN <<>>
    ELSE status_change_alerts(server_name, new, old)

\* the sequence of alerts the call passes to self.notifier.send_alert
handle_server_status_change(server_name, new, old) ==
    IF old = None THEN <<>>
    ELSE status_change_alerts(server_name, new, old)

----------------------------------------------------------------------------
(* ServerMonitor.__init__ *)

Threads == 1..MaxThreads

\* the configurations the model loads: no server, two servers with unique
\* names, or three servers of which the second lacks its 'host' key; a server
\* entry of the JSON file may lack that key (no validation in _load_config)
ServerEntries(n) ==
    {[name |-> n, host |-> "127.0.0.1", port |-> 7777, max_players |-> 1],
     [name |-> n, port |-> 7777, max_players |-> 1]}

Configs ==
    {<<>>} \cup {<<a, b>> : a \in ServerEntries("A"), b \in ServerEntries("B")}
    \cup {<<[name |-> "A", host |-> "127.0.0.1", port |-> 7777, max_players |-> 1],
             [name |-> "B", port |-> 7777, max_players |-> 1],
             [name |-> "C", host |-> "127.0.0.1", port |-> 7777, max_players |-> 1]>>}

Names(cfg) == {cfg[i].name : i \in DOMAIN cfg}

\* what the file system and json.load do with config_file: open raises
\* FileNotFoundError or PermissionError, the bytes are no UTF-8 text, the
\* text is no JSON, or json.load returns the object the file holds
FileMissing == [kind |-> "FileNotFoundError"]

FileDenied == [kind |-> "PermissionError"]

FileNotText == [kind |-> "UnicodeDecodeError"]

FileNotJson == [kind |-> "JSONDecodeError"]

FileJson(obj) == [kind |-> "json", object |-> obj]

\* the dict d with the keys of keep only
Restrict(d, keep) == [k \in DOMAIN d \cap keep |-> d[k]]

\* configurations with every top-level key
FullConfigs ==
    {[discord_webhook |-> w, check_interval |-> c, servers |-> s] :
        w \in {"https://discord.test/hook1", "https://discord.test/hook2"},
        c \in {30, 60},
        s \in Configs}

\* JSON objects a configuration file may hold: any top-level key may be absent
JsonObjects ==
    {Restrict(full, keep) :
        full \in FullConfigs,
        keep \in SUBSET {"discord_webhook", "check_interval", "servers"}}

ConfigFiles ==
    {FileMissing, FileDenied, FileNotText, FileNotJson}
    \cup {FileJson(obj) : obj \in JsonObjects}

_get_default_config ==
    [discord_webhook |-> "YOUR_WEBHOOK_URL_HERE",
     check_interval |-> 60,
     servers |-> <<[name |-> "Main Server", host |-> "127.0.0.1", port |-> 7777,
                    max_players |-> 500, alert_on_offline |-> TRUE,
                    alert_on_high_load |-> TRUE,
                    high_load_threshold |-> <<8, 10>>]>>]

\* try: open, json.load; except FileNotFoundError, except json.JSONDecodeError
_load_config(config_file) ==
    IF config_file.kind = "json" THEN Returned(config_file.object)
    ELSE IF config_file.kind \in {"FileNotFoundError", "JSONDecodeError"}
    THEN Returned(_get_default_config)
    ELSE Raised(config_file.kind)

\* lines 275-278; self.config['discord_webhook'] raises KeyError when the
\* loaded object has no such key
ServerMonitor(config_file) ==
    LET loaded == _load_config(config_file)
    IN  IF loaded.raised THEN loaded
        ELSE IF "discord_webhook" \notin DOMAIN loaded.value THEN Raised("KeyError")
        ELSE Returned([config |-> loaded.value,
                       notifier |-> loaded.value.discord_webhook,
                       monitoring |-> FALSE,
                       server_states |-> <<>>])

\* the state right after ServerMonitor(config_file), before any thread exists
Constructed(cfg) ==
    /\ config = cfg
    /\ monitoring = FALSE
    /\ server_states = [n \in Names(cfg) |-> None]
    /\ pc = [t \in Threads |-> "unborn"]
    /\ idx = [t \in Threads |-> 0]
    /\ new_status = [t \in Threads |-> None]
    /\ old_status = [t \in Threads |-> None]
    /\ sent = [t \in Threads |-> <<>>]
    /\ cycles = 0
    /\ stored = [t \in Threads |-> {}]
    /\ stop_mid = [t \in Threads |-> FALSE]
    /\ raised_at = [t \in Threads |-> 0]
    /\ hl_run = [n \in Names(cfg) |-> 0]
    /\ notify_failed = [t \in Threads |-> 0]
    /\ stop_sleep = [t \in Threads |-> FALSE]
    /\ stopped_since_start = FALSE

----------------------------------------------------------------------------
(* ServerMonitor.monitor_loop, start_monitoring, stop_monitoring *)

\* positions of a monitor thread between the top of a cycle and its end
InCycle == {"probe", "store"}

CurrentName(t) == config[idx[t]].name

EvalOff ==
    /\ ev_pc = "off"
    /\ ev_old = None
    /\ ev_new = None
    /\ ev_threshold = ThresholdNum
    /\ ev_alerts = <<>>

ProbeOff ==
    /\ pr_pc = "off"
    /\ pr_config = None
    /\ pr_nets = <<>>
    /\ pr_result = None

NotifyOff ==
    /\ nt_pc = "off"
    /\ nt_http = None
    /\ nt_result = None

\* no save_status_report call yet
ReaderIdle ==
    /\ rd_pc = "idle"
    /\ rd_size = 0
    /\ rd_pos = 0

ConstructOff ==
    /\ ct_pc = "off"
    /\ ct_file = None
    /\ ct_result = None

Init ==
    /\ \E cfg \in Configs : Constructed(cfg)
    /\ EvalOff
    /\ ProbeOff
    /\ NotifyOff
    /\ ReaderIdle
    /\ ConstructOff

\* threading.Thread(target=self.monitor_loop).start(): no check of self.monitoring
start_monitoring ==
    /\ \E t \in Threads :
          /\ pc[t] = "unborn"
          /\ \A u \in Threads : u < t => pc[u] # "unborn"
          /\ pc' = [pc EXCEPT ![t] = "begin"]
    /\ UNCHANGED <<config, monitoring, server_states, idx, new_status, old_status,
                   sent, cycles, stored, stop_mid, raised_at, hl_run,
                   notify_failed, stop_sleep>>
    /\ stopped_since_start' = FALSE
    /\ UNCHANGED <<ev_vars, pr_vars, nt_vars, rd_vars, ct_vars>>

\* self.monitoring = False
stop_monitoring ==
    /\ monitoring' = FALSE
    /\ stop_mid' = [t \in Threads |-> stop_mid[t] \/ pc[t] \in InCycle]
    /\ stop_sleep' = [t \in Threads |-> stop_sleep[t] \/ pc[t] = "sleep"]
    /\ UNCHANGED <<config, server_states, pc, idx, new_status, old_status,
                   sent, cycles, stored, raised_at, hl_run, notify_failed>>
    /\ stopped_since_start' = \E t \in Threads : pc[t] # "unborn"
    /\ UNCHANGED <<ev_vars, pr_vars, nt_vars, rd_vars, ct_vars>>

\* line 439: self.monitoring = True
loop_begin(t) ==
    /\ pc[t] = "begin"
    /\ monitoring' = TRUE
    /\ pc' = [pc EXCEPT ![t] = "test"]
    /\ UNCHANGED <<config, server_states, idx, new_status, old_status,
                   sent, cycles, stored, stop_mid, raised_at, hl_run,
                   notify_failed, stop_sleep>>
    /\ UNCHANGED stopped_since_start
    /\ UNCHANGED <<ev_vars, pr_vars, nt_vars, rd_vars, ct_vars>>

\* line 442, flag set: while self.monitoring enters a cycle (lines 443-444)
loop_enter(t) ==
    /\ pc[t] = "test"
    /\ monitoring
    /\ cycles < MaxCycles
    /\ cycles' = cycles + 1
    /\ stored' = [stored EXCEPT ![t] = {}]
    /\ stop_mid' = [stop_mid EXCEPT ![t] = FALSE]
    /\ raised_at' = [raised_at EXCEPT ![t] = 0]
    /\ notify_failed' = [notify_failed EXCEPT ![t] = 0]
    /\ IF Len(config) > 0
       THEN /\ idx' = [idx EXCEPT ![t] = 1]
            /\ pc' = [pc EXCEPT ![t] = "probe"]
       ELSE /\ idx' = idx
            /\ pc' = [pc EXCEPT ![t] = "sleep"]
    /\ UNCHANGED <<config, monitoring, server_states, new_status, old_status,
                   sent, hl_run, stop_sleep>>
    /\ UNCHANGED stopped_since_start
    /\ UNCHANGED <<ev_vars, pr_vars, nt_vars, rd_vars, ct_vars>>

\* line 442, flag clear: the loop and the thread end
loop_exit(t) ==
    /\ pc[t] = "test"
    /\ ~monitoring
    /\ pc' = [pc EXCEPT ![t] = "done"]
    /\ stop_sleep' = [stop_sleep EXCEPT ![t] = FALSE]
    /\ UNCHANGED <<config, monitoring, server_states, idx, new_status, old_status,
                   sent, cycles, stored, stop_mid, raised_at, hl_run, notify_failed>>
    /\ UNCHANGED stopped_since_start
    /\ UNCHANGED <<ev_vars, pr_vars, nt_vars, rd_vars, ct_vars>>

\* the outcomes of requests.post the monitor meets: delivered, refused by the
\* webhook, or a transport error
NotifyOutcomes == {HttpResponse(204), HttpResponse(500), HttpException("Timeout")}

\* lines 445-454 for the current server: new_status = self.check_server(...),
\* old_status = self.server_states.get(server_name), then
\* self.handle_server_status_change(server_name, new_status, old_status),
\* which passes each alert to self.notifier.send_alert and ignores what it
\* returns.  The probe, the handler and the notifier work on locals and the
\* network only, so the step is that of the one shared access, the read of
\* server_states.  An exception raised by check_server or by send_alert is
\* caught at line 472, outside the for loop.
probe_and_handle(t) ==
    /\ pc[t] = "probe"
    /\ \E r \in ProbeResults(config[idx[t]], MaxNewlines) :
          IF r.raised
          THEN /\ pc' = [pc EXCEPT ![t] = "except_sleep"]
               /\ raised_at' = [raised_at EXCEPT ![t] = idx[t]]
               /\ idx' = [idx EXCEPT ![t] = 0]
               /\ UNCHANGED <<new_status, old_status, sent, hl_run, notify_failed>>
          ELSE LET old == server_states[CurrentName(t)]
                   alerts == handle_server_status_change(CurrentName(t), r.value, old)
                   n == Cardinality({i \in DOMAIN alerts : alerts[i].kind = "HighLoad"})
               IN  \E https \in [DOMAIN alerts -> NotifyOutcomes] :
                      LET results == [i \in DOMAIN alerts |-> send_alert(https[i])]
                          failed == \E i \in DOMAIN alerts :
                                        results[i].raised \/ ~results[i].value
                          first_failed == IF failed /\ notify_failed[t] = 0
                                          THEN idx[t] ELSE notify_failed[t]
                      IN  IF \E i \in DOMAIN alerts : results[i].raised
                          THEN /\ pc' = [pc EXCEPT ![t] = "except_sleep"]
                               /\ raised_at' = [raised_at EXCEPT ![t] = idx[t]]
                               /\ idx' = [idx EXCEPT ![t] = 0]
                               /\ notify_failed' = [notify_failed EXCEPT ![t] = first_failed]
                               /\ UNCHANGED <<new_status, old_status, sent, hl_run>>
                          ELSE /\ pc' = [pc EXCEPT ![t] = "store"]
                               /\ new_status' = [new_status EXCEPT ![t] = r.value]
                               /\ old_status' = [old_status EXCEPT ![t] = old]
                               /\ sent' = [sent EXCEPT ![t] = alerts]
                               /\ hl_run' = [hl_run EXCEPT ![CurrentName(t)] = @ + n]
                               /\ notify_failed' = [notify_failed EXCEPT ![t] = first_failed]
                               /\ UNCHANGED <<raised_at, idx>>
    /\ UNCHANGED <<config, monitoring, server_states, cycles, stored, stop_mid, stop_sleep>>
    /\ UNCHANGED stopped_since_start
    /\ UNCHANGED <<ev_vars, pr_vars, nt_vars, rd_vars, ct_vars>>

\* the mutant keeps an entry that exists (dict.setdefault)
setitem_setdefault_mutant(d, key, value) ==
    IF d[key] = None THEN [d EXCEPT ![key] = value] ELSE d

\* d[key] = value: the entry of key now refers to value
setitem(d, key, value) == [d EXCEPT ![key] = value]

\* line 457: self.server_states[server_name] = new_status, then the next
\* server of the for loop or, after the last one, the sleep of line 470
store(t) ==
    /\ pc[t] = "store"
    /\ server_states' = setitem(server_states, CurrentName(t), new_status[t])
    /\ hl_run' = [hl_run EXCEPT ![CurrentName(t)] =
                     IF AtOrAbove(Load(Get(new_status[t], "player_count", 0),
                                       Get(new_status[t], "max_players", DefaultMaxPlayers)))
                     THEN @ ELSE 0]
    /\ stored' = [stored EXCEPT ![t] = @ \cup {CurrentName(t)}]
    /\ new_status' = [new_status EXCEPT ![t] = None]
    /\ old_status' = [old_status EXCEPT ![t] = None]
    /\ sent' = [sent EXCEPT ![t] = <<>>]
    /\ IF idx[t] < Len(config)
       THEN /\ idx' = [idx EXCEPT ![t] = @ + 1]
            /\ pc' = [pc EXCEPT ![t] = "probe"]
       ELSE /\ idx' = [idx EXCEPT ![t] = 0]
            /\ pc' = [pc EXCEPT ![t] = "sleep"]
    /\ UNCHANGED <<config, monitoring, cycles, stop_mid, raised_at, notify_failed, stop_sleep>>
    /\ UNCHANGED stopped_since_start
    /\ UNCHANGED <<ev_vars, pr_vars, nt_vars, rd_vars, ct_vars>>

\* line 470: time.sleep(check_interval) returns
sleep_done(t) ==
    /\ pc[t] = "sleep"
    /\ pc' = [pc EXCEPT ![t] = "test"]
    /\ UNCHANGED <<config, monitoring, server_states, idx, new_status, old_status,
                   sent, cycles, stored, stop_mid, raised_at, hl_run,
                   notify_failed, stop_sleep>>
    /\ UNCHANGED stopped_since_start
    /\ UNCHANGED <<ev_vars, pr_vars, nt_vars, rd_vars, ct_vars>>

\* the mutant has no except branch: the exception ends the thread
except_sleep_done_uncaught_mutant(t) ==
    /\ pc[t] = "except_sleep"
    /\ pc' = [pc EXCEPT ![t] = "done"]
    /\ UNCHANGED <<config, monitoring, server_states, idx, new_status, old_status,
                   sent, cycles, stored, stop_mid, raised_at, hl_run,
                   notify_failed, stop_sleep>>
    /\ UNCHANGED stopped_since_start
    /\ UNCHANGED <<ev_vars, pr_vars, nt_vars, rd_vars, ct_vars>>

\* lines 472-474: the except branch logs and time.sleep(10) returns
except_sleep_done(t) ==
    /\ pc[t] = "except_sleep"
    /\ pc' = [pc EXCEPT ![t] = "test"]
    /\ UNCHANGED <<config, monitoring, server_states, idx, new_status, old_status,
                   sent, cycles, stored, stop_mid, raised_at, hl_run,
                   notify_failed, stop_sleep>>
    /\ UNCHANGED stopped_since_start
    /\ UNCHANGED <<ev_vars, pr_vars, nt_vars, rd_vars, ct_vars>>

Next ==
    \/ start_monitoring
    \/ stop_monitoring
    \/ \E t \in Threads : loop_begin(t)
    \/ \E t \in Threads : loop_enter(t)
    \/ \E t \in Threads : loop_exit(t)
    \/ \E t \in Threads : probe_and_handle(t)
    \/ \E t \in Threads : store(t)
    \/ \E t \in Threads : sleep_done(t)
    \/ \E t \in Threads : except_sleep_done(t)

Spec == Init /\ [][Next]_vars

----------------------------------------------------------------------------
(* ServerMonitor.save_status_report running beside the monitoring loop *)

\* len(self.server_states)
Entries == Cardinality({n \in Names(config) : server_states[n] # None})

\* lines 513-515: the report refers to self.server_states itself, and
\* json.dump(report, f, indent=2) writes an empty dict at once and begins to
\* iterate any other
save_begin ==
    /\ rd_pc = "idle"
    /\ rd_pc' = IF Entries = 0 THEN "saved" ELSE "dump"
    /\ rd_size' = Entries
    /\ rd_pos' = 0
    /\ UNCHANGED <<monitor_vars, ev_vars, pr_vars, nt_vars, ct_vars>>

\* one step of the dict iteration inside json.dump: a dict whose size has
\* changed since the iteration began raises RuntimeError, caught at line 517;
\* otherwise the next entry is written, or the dump ends
dump_entry ==
    /\ rd_pc = "dump"
    /\ IF Entries # rd_size
       THEN /\ rd_pc' = "failed"
            /\ UNCHANGED rd_pos
       ELSE IF rd_pos < rd_size
       THEN /\ rd_pos' = rd_pos + 1
            /\ UNCHANGED rd_pc
       ELSE /\ rd_pc' = "saved"
            /\ UNCHANGED rd_pos
    /\ UNCHANGED rd_size
    /\ UNCHANGED <<monitor_vars, ev_vars, pr_vars, nt_vars, ct_vars>>

ReaderNext == save_begin \/ dump_entry \/ Next

ReaderSpec == Init /\ [][ReaderNext]_vars

----------------------------------------------------------------------------
(* Evaluation harness: handle_server_status_change applied to one pair of  *)
(* status dicts of the two shapes check_server builds                      *)

EvalConfigs ==
    {[name |-> "A", host |-> "127.0.0.1", port |-> 7777, max_players |-> m] : m \in {0, 5, 10}}

\* high_load_threshold values of a server entry, in tenths: 0.5, 0.8, 0.9
ConfiguredThresholds == {5, 8, 9}

EvalSnapshots ==
    {OnlineStatus(c, p, n) : c \in EvalConfigs, p \in PingTimes \cup {NoneInt}, n \in 0..MaxCount}
    \cup {OfflineStatus(c, e) : c \in EvalConfigs, e \in {"Query timeout", "Query failed"}}

\* the monitor the harnesses leave untouched
IdleMonitor ==
    Constructed(CHOOSE cfg \in Configs :
                    Len(cfg) = 2 /\ \A i \in DOMAIN cfg : "host" \in DOMAIN cfg[i])

EvalInit ==
    /\ IdleMonitor
    /\ ProbeOff
    /\ NotifyOff
    /\ ReaderIdle
    /\ ConstructOff
    /\ ev_pc = "input"
    /\ ev_old \in EvalSnapshots \cup {None}
    /\ ev_new \in EvalSnapshots
    /\ ev_threshold \in ConfiguredThresholds
    /\ ev_alerts = <<>>

evaluate ==
    /\ ev_pc = "input"
    /\ ev_alerts' = handle_server_status_change(ev_new.name, ev_new, ev_old)
    /\ ev_pc' = "done"
    /\ UNCHANGED <<ev_old, ev_new, ev_threshold>>
    /\ UNCHANGED <<monitor_vars, pr_vars, nt_vars, rd_vars, ct_vars>>

\* a second call with the same arguments; ev_alerts keeps the alerts of both calls
evaluate_again ==
    /\ ev_pc = "done"
    /\ ev_alerts' = ev_alerts \o handle_server_status_change(ev_new.name, ev_new, ev_old)
    /\ ev_pc' = "again"
    /\ UNCHANGED <<ev_old, ev_new, ev_threshold>>
    /\ UNCHANGED <<monitor_vars, pr_vars, nt_vars, rd_vars, ct_vars>>

EvalNext == evaluate \/ evaluate_again

EvalSpec == EvalInit /\ [][EvalNext]_vars

\* number of alerts of one kind in a sequence of alerts
CountKind(alerts, kind) == Cardinality({i \in DOMAIN alerts : alerts[i].kind = kind})

\* load >= threshold as the specification defines the load of a snapshot:
\* player_count / max_players, 0 when max_players is 0, 0 for an offline snapshot
SpecHighLoad(s) ==
    /\ s.online
    /\ s.max_players > 0
    /\ 10 * s.player_count >= 8 * s.max_players

Evaluated == ev_pc = "done"

\* C2: with no previous snapshot (old_status is None) the handler sends no
\* alert of any kind, whatever the new snapshot is.
C2_NoAlertWithoutOld ==
    (Evaluated /\ ev_old = None) => ev_alerts = <<>>

C2_Witness ==
    /\ Evaluated
    /\ ev_old = None
    /\ SpecHighLoad(ev_new)

\* C3: old online and new offline gives exactly one WentOffline alert and no
\* other alert, whatever the player counts and max_players.
C3_OfflineTransition ==
    (Evaluated /\ ev_old # None /\ ev_old.online /\ ~ev_new.online)
        => ev_alerts = <<Alert("WentOffline", ev_new.name)>>

C3_Witness ==
    /\ Evaluated
    /\ ev_old # None
    /\ SpecHighLoad(ev_old)
    /\ ~ev_new.online
    /\ CountKind(ev_alerts, "WentOffline") = 1

\* C4: old offline and new online gives exactly one WentOnline alert, and a
\* WentOnline alert is sent in no other case.
C4_OnlineTransition ==
    Evaluated =>
        /\ (ev_old # None /\ ~ev_old.online /\ ev_new.online)
              => CountKind(ev_alerts, "WentOnline") = 1
        /\ CountKind(ev_alerts, "WentOnline") > 0
              => (ev_old # None /\ ~ev_old.online /\ ev_new.online)

C4_Witness ==
    /\ Evaluated
    /\ ev_old # None
    /\ ~ev_old.online
    /\ ev_new.online
    /\ CountKind(ev_alerts, "WentOnline") = 1

\* C5: with old present, HighLoad is sent (once) exactly when the new
\* snapshot is online with load >= 0.8 and the old load is below 0.8; loads
\* 0.5 -> 0.9 give one HighLoad and loads 0.9 -> 0.5 give no alert at all.
C5_RisingEdge ==
    (Evaluated /\ ev_old # None) =>
        /\ CountKind(ev_alerts, "HighLoad") =
              (IF SpecHighLoad(ev_new) /\ ~SpecHighLoad(ev_old) THEN 1 ELSE 0)
        /\ (/\ ev_old.online /\ ev_old.max_players = 10 /\ ev_old.player_count = 5
            /\ ev_new.online /\ ev_new.max_players = 10 /\ ev_new.player_count = 9)
              => ev_alerts = <<Alert("HighLoad", ev_new.name)>>
        /\ (/\ ev_old.online /\ ev_old.max_players = 10 /\ ev_old.player_count = 9
            /\ ev_new.online /\ ev_new.max_players = 10 /\ ev_new.player_count = 5)
              => ev_alerts = <<>>

C5_Witness ==
    /\ Evaluated
    /\ ev_old # None
    /\ ev_old.online /\ ev_old.max_players = 10 /\ ev_old.player_count = 5
    /\ ev_new.online /\ ev_new.max_players = 10 /\ ev_new.player_count = 8
    /\ CountKind(ev_alerts, "HighLoad") = 1

\* C16: a snapshot with max_players = 0 has load 0 and no division by zero
\* is ever made; a new snapshot with max_players = 0 never gives HighLoad,
\* and an old one with max_players = 0 counts as below the threshold.
C16_ZeroMaxPlayers ==
    (Evaluated /\ ev_old # None /\ ev_new.online) =>
        LET load == Load(Get(ev_new, "player_count", 0),
                         Get(ev_new, "max_players", DefaultMaxPlayers))
            old_load == Load(Get(ev_old, "player_count", 0),
                             Get(ev_old, "max_players", DefaultMaxPlayers))
        IN  /\ load[2] # 0
            /\ old_load[2] # 0
            /\ ev_new.max_players = 0 =>
                  (load[1] = 0 /\ CountKind(ev_alerts, "HighLoad") = 0)
            /\ (ev_old.online /\ ev_old.max_players = 0) =>
                  (old_load[1] = 0 /\ CountKind(ev_alerts, "HighLoad") =
                                         (IF SpecHighLoad(ev_new) THEN 1 ELSE 0))

C16_Witness ==
    /\ Evaluated
    /\ ev_old # None
    /\ ev_old.online /\ ev_old.max_players = 10 /\ ev_old.player_count = 0
    /\ ev_new.online /\ ev_new.max_players = 0 /\ ev_new.player_count = MaxCount
    /\ ev_alerts = <<>>

\* C17: old offline and new online at or above the threshold gives WentOnline
\* then HighLoad in the same call; below the threshold it gives WentOnline only.
C17_ReconnectUnderLoad ==
    (Evaluated /\ ev_old # None /\ ~ev_old.online /\ ev_new.online) =>
        ev_alerts = IF SpecHighLoad(ev_new)
                    THEN <<Alert("WentOnline", ev_new.name), Alert("HighLoad", ev_new.name)>>
                    ELSE <<Alert("WentOnline", ev_new.name)>>

C17_Witness ==
    /\ Evaluated
    /\ ev_old # None
    /\ ~ev_old.online
    /\ SpecHighLoad(ev_new)
    /\ Len(ev_alerts) = 2

\* C22: whatever high_load_threshold the server's entry configures, HighLoad
\* is decided against 0.8: it is sent exactly when the new load is at or
\* above 0.8 and the old load below 0.8, so entries that differ in their
\* threshold only get the same alerts for the same snapshots.
C22_FixedThreshold ==
    \A th \in ConfiguredThresholds :
        (Evaluated /\ ev_old # None /\ ev_threshold = th) =>
            ev_alerts =
                (IF went_offline(ev_new, ev_old) THEN <<Alert("WentOffline", ev_new.name)>>
                 ELSE IF came_online(ev_new, ev_old) THEN <<Alert("WentOnline", ev_new.name)>>
                 ELSE <<>>)
                \o (IF SpecHighLoad(ev_new) /\ ~SpecHighLoad(ev_old)
                    THEN <<Alert("HighLoad", ev_new.name)>> ELSE <<>>)

\* a load of 0.6 after 0.1 under a configured threshold of 0.5: no HighLoad
C22_Witness ==
    /\ Evaluated
    /\ ev_threshold = 5
    /\ ev_old # None /\ ev_old.online /\ ev_old.max_players = 10 /\ ev_old.player_count = 1
    /\ ev_new.online /\ ev_new.max_players = 10 /\ ev_new.player_count = 6
    /\ ev_alerts = <<>>

----------------------------------------------------------------------------
(* Probe harness: check_server applied to one server entry, the network    *)
(* deciding each of the three queries independently                        *)

ProbeInit ==
    /\ IdleMonitor
    /\ EvalOff
    /\ NotifyOff
    /\ ReaderIdle
    /\ ConstructOff
    /\ pr_pc = "input"
    /\ pr_config \in ServerEntries("A")
    /\ pr_nets \in NetOutcomes(MaxNewlines) \X NetOutcomes(MaxNewlines) \X NetOutcomes(MaxNewlines)
    /\ pr_result = None

probe_once ==
    /\ pr_pc = "input"
    /\ pr_result' = check_server(pr_config, pr_nets[1], pr_nets[2], pr_nets[3])
    /\ pr_pc' = "done"
    /\ UNCHANGED <<pr_config, pr_nets>>
    /\ UNCHANGED <<monitor_vars, ev_vars, nt_vars, rd_vars, ct_vars>>

ProbeNext == probe_once

ProbeSpec == ProbeInit /\ [][ProbeNext]_vars

\* a sub-query failed by timeout or transport error
QueryFailed(net) == net.kind \in {"timeout", "error"}

\* C7: check_server returns online = false with the error recorded whenever
\* any of the three sub-queries fails, and online = true only when all three
\* succeeded.
C7_AnyFailureGivesOffline ==
    (pr_pc = "done" /\ ~pr_result.raised) =>
        LET failed == \E i \in 1..3 : QueryFailed(pr_nets[i])
            status == pr_result.value
        IN  /\ failed => (~status.online /\ "error" \in DOMAIN status)
            /\ status.online => ~failed

\* the shape the specification gives an offline snapshot
OfflineWellFormed(status) ==
    /\ ~status.online
    /\ "ping" \notin DOMAIN status
    /\ "player_count" \notin DOMAIN status
    /\ "error" \in DOMAIN status

\* C18: every snapshot check_server produces is well-formed: online = true
\* comes with a player_count that is an integer >= 0 (0 when the players
\* query gave no data); online = false comes with no ping, no player_count
\* and an error text, which is also the shape of the dict of lines 361-368.
C18_WellFormedSnapshot ==
    /\ (pr_pc = "done" /\ ~pr_result.raised) =>
          LET status == pr_result.value IN
          IF status.online
          THEN /\ status.player_count # NoneInt
               /\ status.player_count >= 0
               /\ get_player_count(pr_nets[2]).value = NoneInt => status.player_count = 0
          ELSE OfflineWellFormed(status)
    /\ \A c \in EvalConfigs : OfflineWellFormed(OfflineStatus(c, "Query timeout"))

C18_Witness ==
    /\ pr_pc = "done"
    /\ ~pr_result.raised
    /\ QueryFailed(pr_nets[2])
    /\ pr_result.value.online
    /\ pr_result.value.player_count = 0

----------------------------------------------------------------------------
(* Notifier harness: send_alert applied to one outcome of requests.post *)

NotifyInit ==
    /\ IdleMonitor
    /\ EvalOff
    /\ ProbeOff
    /\ ReaderIdle
    /\ ConstructOff
    /\ nt_pc = "input"
    /\ nt_http \in HttpOutcomes
    /\ nt_result = None

notify_once ==
    /\ nt_pc = "input"
    /\ nt_result' = send_alert(nt_http)
    /\ nt_pc' = "done"
    /\ UNCHANGED nt_http
    /\ UNCHANGED <<monitor_vars, ev_vars, pr_vars, rd_vars, ct_vars>>

NotifyNext == notify_once

NotifySpec == NotifyInit /\ [][NotifyNext]_vars

\* C20: send_alert returns True exactly when the response status is 200 or
\* 204; any other status and any transport error gives False, and the call
\* raises nothing.
C20_SuccessIs200Or204 ==
    nt_pc = "done" =>
        /\ ~nt_result.raised
        /\ nt_result.value =
              (nt_http.kind = "response" /\ (nt_http.status_code = 200 \/ nt_http.status_code = 204))

C20_Witness ==
    /\ nt_pc = "done"
    /\ nt_http.kind = "response"
    /\ nt_http.status_code = 204
    /\ nt_result.value

----------------------------------------------------------------------------
(* Construction harness: ServerMonitor(config_file) on one configuration file *)

ConstructInit ==
    /\ IdleMonitor
    /\ EvalOff
    /\ ProbeOff
    /\ NotifyOff
    /\ ReaderIdle
    /\ ct_pc = "input"
    /\ ct_file \in ConfigFiles
    /\ ct_result = None

construct ==
    /\ ct_pc = "input"
    /\ ct_result' = ServerMonitor(ct_file)
    /\ ct_pc' = "done"
    /\ UNCHANGED ct_file
    /\ UNCHANGED <<monitor_vars, ev_vars, pr_vars, nt_vars, rd_vars>>

ConstructNext == construct

ConstructSpec == ConstructInit /\ [][ConstructNext]_vars

\* a configuration file that is there and holds a configuration: a JSON
\* object with its webhook, its interval and its servers
ValidConfigFile(config_file) ==
    /\ config_file.kind = "json"
    /\ DOMAIN config_file.object = {"discord_webhook", "check_interval", "servers"}

\* C21: constructing the monitor from a missing or invalid configuration file
\* never fails and gives the monitor the built-in default configuration: one
\* server 127.0.0.1:7777 with max_players 500 and threshold 0.8, interval 60.
C21_FallbackToDefault ==
    (ct_pc = "done" /\ ~ValidConfigFile(ct_file)) =>
        /\ ~ct_result.raised
        /\ ct_result.value.config = _get_default_config
        /\ Len(ct_result.value.config.servers) = 1
        /\ ct_result.value.config.check_interval = 60

----------------------------------------------------------------------------
(* Claims about the monitoring loop *)

\* the alerts the specification's rules give for the transition old -> new
SpecAlerts(server_name, old, new) ==
    IF old = None THEN <<>>
    ELSE (IF old.online /\ ~new.online THEN <<Alert("WentOffline", server_name)>>
          ELSE IF ~old.online /\ new.online THEN <<Alert("WentOnline", server_name)>>
          ELSE <<>>)
         \o (IF SpecHighLoad(new) /\ ~SpecHighLoad(old)
             THEN <<Alert("HighLoad", server_name)>> ELSE <<>>)

\* a monitor thread that has begun its loop and not left it
Running(t) == pc[t] \in {"test", "probe", "store", "sleep", "except_sleep"}

\* C1: whenever a snapshot is about to replace the stored one, the notifier
\* calls made for it are exactly the alerts of the transition from the stored
\* snapshot to the new one: none twice, none skipped.
C1_OncePerTransition ==
    \A t \in Threads :
        pc[t] = "store" =>
            sent[t] = SpecAlerts(CurrentName(t), server_states[CurrentName(t)], new_status[t])

\* C6: within a run of stored snapshots at or above the threshold, HighLoad
\* is notified at most once; a further HighLoad needs a stored snapshot below
\* the threshold in between.
C6_OneHighLoadPerRun ==
    \A n \in DOMAIN hl_run : hl_run[n] <= 1

\* C8: when the handling of one server fails in a cycle, every other
\* configured server is still probed, evaluated and stored in that cycle.
C8_FailureIsolated ==
    \A t \in Threads :
        raised_at[t] # 0 =>
            \A i \in DOMAIN config : i # raised_at[t] => config[i].name \in stored[t]

\* C9: at every moment at most one monitoring loop is running.
C9_SingleLoop ==
    Cardinality({t \in Threads : Running(t)}) <= 1

\* C10: a loop that exits after stop_monitoring was called during its cycle
\* has probed, evaluated and stored every configured server in that cycle.
C10_StopCompletesCycle ==
    \A t \in Threads :
        (pc[t] = "done" /\ stop_mid[t]) => stored[t] = Names(config)

\* C11: a loop that was in its inter-cycle sleep when stop_monitoring was
\* called exits without starting another cycle: from then on it is in the
\* sleep or at the test of the flag until it has exited, never in a probe, a
\* store or the except branch.
C11_StopInSleepExits ==
    \A t \in Threads : stop_sleep[t] => pc[t] \in {"sleep", "test"}

\* C12: a loop that is in its inter-cycle sleep after stop_monitoring was
\* called can terminate at once, without the sleep timer elapsing first.
C12_SleepInterruptible ==
    \A t \in Threads :
        (pc[t] = "sleep" /\ stop_sleep[t] /\ ~monitoring) => ENABLED loop_exit(t)

\* C13: a failed send_alert is not raised at the server it was sent for, and
\* when the cycle is over, every server from that one on, other than a server
\* whose own handling raised, has been stored in that cycle.
C13_NotifyFailureNotRaised ==
    \A t \in Threads :
        notify_failed[t] # 0 =>
            /\ raised_at[t] # notify_failed[t]
            /\ pc[t] \in {"sleep", "except_sleep"} =>
                  \A i \in DOMAIN config :
                      (i >= notify_failed[t] /\ i # raised_at[t]) => config[i].name \in stored[t]

\* C15: server_states has one entry per key, its keys are names of configured
\* servers and an entry carries the name it is stored under; no step removes
\* an entry; a store makes the entry the new snapshot as a whole and leaves
\* the snapshot it replaces, which other threads may still hold, as it was.
C15_EntriesReplacedNeverRemoved ==
    [][/\ DOMAIN server_states' = Names(config)
       /\ \A n \in Names(config) :
             /\ server_states'[n] # None => server_states'[n].name = n
             /\ server_states[n] # None => server_states'[n] # None
       /\ \A t \in Threads :
             (pc[t] = "store" /\ pc'[t] # "store") =>
                 /\ server_states'[CurrentName(t)] = new_status[t]
                 /\ \A n \in Names(config) \ {CurrentName(t)} :
                       server_states'[n] = server_states[n]
                 /\ \A u \in Threads \ {t} : old_status'[u] = old_status[u]]_vars

\* a thread still holds the snapshot it read while the entry has been replaced
C15_Witness ==
    \E t \in Threads :
        /\ pc[t] = "store"
        /\ old_status[t] # None
        /\ server_states[CurrentName(t)] # None
        /\ server_states[CurrentName(t)] # old_status[t]

\* C14: a save_status_report that runs beside the monitoring loop never
\* fails because of a write of the loop.
C14_ReaderNeverFails ==
    rd_pc # "failed"

\* C23: the old snapshot a server's new snapshot was evaluated against is
\* the snapshot stored for that server when the new one replaces it: the one
\* the preceding cycle stored, with no other store in between.
C23_EvaluatedAgainstStored ==
    \A t \in Threads :
        pc[t] = "store" => old_status[t] = server_states[CurrentName(t)]

\* C24: after stop_monitoring, with no start_monitoring since, a loop at the
\* test of the flag exits; it does not enter another cycle.
C24_StopStopsLoop ==
    [][\A t \in Threads :
          (stopped_since_start /\ stopped_since_start' /\ pc[t] = "test") =>
              pc'[t] \in {"test", "done"}]_vars

\* C25: a cycle ends in the sleep or, when something raised, in the pause of
\* the except branch, never with the end of the thread; after the pause the
\* loop is back at the test of the flag, a cycle entered there starts at the
\* first configured server, and the loop ends only at that test with the
\* flag false.
C25_ExceptionKeepsLoop ==
    [][\A t \in Threads :
          /\ (pc[t] \in InCycle /\ pc'[t] \notin InCycle) =>
                pc'[t] \in {"sleep", "except_sleep"}
          /\ pc[t] = "except_sleep" => pc'[t] \in {"except_sleep", "test"}
          /\ (pc[t] = "test" /\ pc'[t] \in InCycle) => idx'[t] = 1
          /\ (pc'[t] = "done" /\ pc[t] # "done") => (pc[t] = "test" /\ ~monitoring)]_vars

\* a single loop whose second cycle, begun after the exception of the first,
\* has stored the first server again and raised at the second
C25_Witness ==
    \E t \in Threads :
        /\ \A u \in Threads \ {t} : pc[u] = "unborn"
        /\ cycles >= 2
        /\ pc[t] = "except_sleep"
        /\ raised_at[t] = 2
        /\ stored[t] = {config[1].name}

====
